---- MODULE Spec2Model ----
(***************************************************************************)
(* FSJP: the Shortest Processing Time heuristic                            *)
(* (src/algorithms/shortest_processing_time.py), its caller run_algorithm  *)
(* (src/algorithms/__init__.py), the experiment loop of src/main.py, the   *)
(* validation rows of src/results_manager.py and validate_solution         *)
(* (src/utils.py).                                                         *)
(*                                                                         *)
(* Ids are 0-based as in the source; TLA+ sequences are 1-based, so job j  *)
(* of an instance is instance.jobs[j + 1] and operation o of a job is its  *)
(* element o + 1.                                                          *)
(***************************************************************************)
EXTENDS Integers, Sequences, FiniteSets, TLC

VARIABLES
    CONFIG,             \* main.py: the configuration loaded from config.json
    instance,           \* the FSJPInstance: [num_machines, jobs]
    pc,                 \* position of the experiment: see the state machine below
    machine_available,  \* SPT: machine -> time it becomes free
    job_operation_idx,  \* SPT: job -> index of its next unscheduled operation
    job_completion,     \* SPT: job -> completion time of its last scheduled operation
    schedule,           \* SPT: entries committed so far, in commit order
    iterations,         \* SPT: completed passes through the body of the while loop
    result,             \* what run_algorithm returned (NoResult before it returns)
    results,            \* main: results[alg_name], the recorded runs
    validations,        \* ResultsManager.save_validations: the rows written
    edits,              \* hand-made changes applied to result.schedule
    verdict             \* validate_solution's return value on the hand-made schedule

vars == <<CONFIG, instance, pc, machine_available, job_operation_idx, job_completion,
          schedule, iterations, result, results, validations, edits, verdict>>

----------------------------------------------------------------------------
(* Bounds of the model. *)

MaxJobs == 2

MaxTotalOps == 2

(* The values num_machines and a processing time are drawn from. *)
MachineCounts == {1, 2}

Durations == {1, 2}

MaxIdle == 2

MaxEdits == 3

(* float('inf'): larger than every time the bounded model can produce. *)
Infinity == 1000000

----------------------------------------------------------------------------
(* Helpers on sequences. *)

Range(s) == {s[i] : i \in 1..Len(s)}

RECURSIVE SeqSum(_)
SeqSum(s) == IF s = <<>> THEN 0 ELSE Head(s) + SeqSum(Tail(s))

RECURSIVE Flatten(_)
Flatten(ss) == IF ss = <<>> THEN <<>> ELSE Head(ss) \o Flatten(Tail(ss))

SetMax(S) == CHOOSE x \in S : \A y \in S : y <= x

----------------------------------------------------------------------------
(* The instance data model: main.py builds every operation as              *)
(* {operation_id (its index), eligible_machines (a list without            *)
(* repetition), processing_times (a dict keyed by the eligible machines)}. *)

NoRepeatSeqs(S) ==
    UNION {{s \in [1..k -> S] : \A a, b \in 1..k : a # b => s[a] # s[b]} :
           k \in 0..Cardinality(S)}

Operations(M) ==
    UNION {{[eligible_machines |-> em, processing_times |-> pt] :
            pt \in [Range(em) -> Durations]} :
           em \in NoRepeatSeqs(0..(M - 1))}

(* The ways to give n jobs t operations in all (a job may have none). *)
Compositions(n, t) == {sizes \in [1..n -> 0..t] : SeqSum(sizes) = t}

(* The jobs list whose job j holds the next sizes[j] operations of flat. *)
SplitJobs(flat, sizes) ==
    [j \in 1..Len(sizes) |->
        LET before == SeqSum(SubSeq(sizes, 1, j - 1)) IN
        SubSeq(flat, before + 1, before + sizes[j])]

(* The instances with M machines, n jobs and t operations. *)
InstancesOf(M, n, t) ==
    {[num_machines |-> M, jobs |-> SplitJobs(flat, sizes)] :
        flat \in [1..t -> Operations(M)], sizes \in Compositions(n, t)}

num_jobs(inst) == Len(inst.jobs)

JobIds(inst) == 0..(num_jobs(inst) - 1)

MachineIds(inst) == 0..(inst.num_machines - 1)

operations(inst, job_id) == inst.jobs[job_id + 1]

Operation(inst, job_id, op_id) == operations(inst, job_id)[op_id + 1]

TotalOperations(inst) ==
    SeqSum([j \in 1..num_jobs(inst) |-> Len(inst.jobs[j])])

AllPairs(inst) ==
    UNION {{<<j, o>> : o \in 0..(Len(operations(inst, j)) - 1)} : j \in JobIds(inst)}

(* The instance invariants of the data model: every operation has at least *)
(* one eligible machine, all of them machines of the instance, each with a *)
(* strictly positive processing time.                                      *)
ValidInstance(inst) ==
    \A p \in AllPairs(inst) :
        LET op == Operation(inst, p[1], p[2]) IN
        /\ op.eligible_machines # <<>>
        /\ Range(op.eligible_machines) \subseteq MachineIds(inst)
        /\ \A m \in Range(op.eligible_machines) : op.processing_times[m] > 0

----------------------------------------------------------------------------
(* shortest_processing_time(instance).                                     *)

Max(a, b) == IF a >= b THEN a ELSE b

(* A start that forgets the job's own readiness. *)
CandidateStartMachineOnly(avail, compl, machine, job_id) == avail[machine]

(* line 47 *)
CandidateStart(avail, compl, machine, job_id) ==
    Max(avail[machine], compl[job_id])

(* lines 38-47: the candidates of one job, in the order the inner loop     *)
(* visits them (the order of the eligible_machines list).                  *)
JobCandidates(inst, idx, avail, compl, job_id) ==
    IF idx[job_id] >= Len(operations(inst, job_id)) THEN <<>>
    ELSE LET op == operations(inst, job_id)[idx[job_id] + 1] IN
         [k \in 1..Len(op.eligible_machines) |->
            LET machine == op.eligible_machines[k] IN
            [job_id |-> job_id,
             machine |-> machine,
             processing_time |-> op.processing_times[machine],
             start_time |-> CandidateStart(avail, compl, machine, job_id)]]

(* lines 36-45: all candidates of an iteration, in scan order. *)
Candidates(inst, idx, avail, compl) ==
    Flatten([j \in 1..num_jobs(inst) |-> JobCandidates(inst, idx, avail, compl, j - 1)])

(* lines 31-34 *)
NoBest ==
    [job_id |-> -1, machine |-> -1, processing_time |-> Infinity, start_time |-> Infinity]

(* A test that also replaces the best candidate on a full tie. *)
ImprovesOrTies(c, best) ==
    \/ c.processing_time < best.processing_time
    \/ (c.processing_time = best.processing_time /\ c.start_time <= best.start_time)

(* A test that looks at the start time only. *)
ImprovesOnStartOnly(c, best) == c.start_time < best.start_time

(* lines 50-51 *)
Improves(c, best) ==
    \/ c.processing_time < best.processing_time
    \/ (c.processing_time = best.processing_time /\ c.start_time < best.start_time)

(* lines 36-56: the scan keeps the first candidate that no later one improves on. *)
RECURSIVE SelectBest(_, _)
SelectBest(cands, best) ==
    IF cands = <<>> THEN best
    ELSE SelectBest(Tail(cands), IF Improves(Head(cands), best) THEN Head(cands) ELSE best)

(* A loop that ends as soon as one job is complete. *)
AnyComplete(inst, idx) ==
    \E j \in JobIds(inst) : idx[j] >= Len(operations(inst, j))

(* lines 27-28: the negation of the while condition. *)
AllComplete(inst, idx) ==
    \A j \in JobIds(inst) : idx[j] >= Len(operations(inst, j))

(* An entry that completes when it starts. *)
NewEntryNoDuration(inst, idx, best) ==
    [job_id |-> best.job_id,
     operation_id |-> idx[best.job_id],
     machine |-> best.machine,
     start_time |-> best.start_time,
     completion_time |-> best.start_time]

(* lines 62-68 *)
NewEntry(inst, idx, best) ==
    [job_id |-> best.job_id,
     operation_id |-> idx[best.job_id],
     machine |-> best.machine,
     start_time |-> best.start_time,
     completion_time |-> best.start_time + best.processing_time]

(* A cursor that skips an operation. *)
AdvanceCursorByTwo(idx, job_id) == [idx EXCEPT ![job_id] = @ + 2]

(* line 73 *)
AdvanceCursor(idx, job_id) == [idx EXCEPT ![job_id] = @ + 1]

(* The completion time of job 0 instead of the maximum. *)
ComputeMakespanFirstJob(compl) == compl[0]

(* line 76; max() of an empty list raises ValueError, which is handled in SptReturn. *)
ComputeMakespan(compl) == SetMax({compl[j] : j \in DOMAIN compl})

----------------------------------------------------------------------------
(* Results: the dicts run_algorithm returns. keys is the set of keys the   *)
(* dict holds; a field whose key is absent carries a filler value.         *)

NoResult == [keys |-> {}, makespan |-> 0, schedule |-> <<>>, error |-> "none"]

(* load_algorithms(): the enabled algorithms that could be imported. *)
algorithms == {"shortest_processing_time"}

AlgorithmNames == {"shortest_processing_time", "not_an_algorithm"}

(* __init__.py line 61 *)
UnknownAlgorithmResult ==
    [keys |-> {"makespan", "error"}, makespan |-> Infinity, schedule |-> <<>>,
     error |-> "unknown_algorithm"]

(* __init__.py lines 68-69 and 75 *)
ExceptionResult ==
    [keys |-> {"makespan", "error", "execution_time"}, makespan |-> Infinity,
     schedule |-> <<>>, error |-> "error_running"]

(* shortest_processing_time.py lines 78-82 and __init__.py line 75 *)
SptResult(mk, sched) ==
    [keys |-> {"makespan", "schedule", "algorithm_type", "execution_time"},
     makespan |-> mk, schedule |-> sched, error |-> "none"]

----------------------------------------------------------------------------
(* validate_solution(instance, solution). A reason is a record of the      *)
(* message's kind and of the ids the message is formatted with (-1 where   *)
(* the message has none).                                                  *)

Reason(kind, job_id, operation_id, machine_id) ==
    [kind |-> kind, job_id |-> job_id, operation_id |-> operation_id,
     machine_id |-> machine_id]

(* line 232: None *)
NoReason == Reason("None", -1, -1, -1)

(* line 205: "Operation {op_id} of job {job_id} is not scheduled" *)
NotScheduled(job_id, op_id) == Reason("is not scheduled", job_id, op_id, -1)

(* line 208: "Schedule contains duplicate operations" *)
DuplicateOperations == Reason("Schedule contains duplicate operations", -1, -1, -1)

(* line 218: "Operation {op} of job {job_id} starts before previous operation completes" *)
StartsBeforePrevious(job_id, op_id) ==
    Reason("starts before previous operation completes", job_id, op_id, -1)

(* line 230: "Operations on machine {machine_id} overlap in time" *)
MachineOverlap(machine_id) == Reason("overlap in time", -1, -1, machine_id)

(* list.sort(key=...) is stable: entries with equal keys keep their order. *)
RECURSIVE InsertSorted(_, _, _)
InsertSorted(sorted, x, field) ==
    IF sorted = <<>> THEN <<x>>
    ELSE IF Head(sorted)[field] <= x[field]
         THEN <<Head(sorted)>> \o InsertSorted(Tail(sorted), x, field)
         ELSE <<x>> \o sorted

RECURSIVE StableSort(_, _)
StableSort(s, field) ==
    IF s = <<>> THEN <<>>
    ELSE InsertSorted(StableSort(SubSeq(s, 1, Len(s) - 1), field), s[Len(s)], field)

(* line 192: solution.get('schedule', []) *)
GetSchedule(solution) ==
    IF "schedule" \in solution.keys THEN solution.schedule ELSE <<>>

(* lines 195-198 *)
ScheduledOps(sched) == {<<e.job_id, e.operation_id>> : e \in Range(sched)}

(* lines 201-205: the pairs the nested loops find missing; the loops       *)
(* return at the first one in (job_id, op_id) order.                       *)
MissingOps(inst, sched) == AllPairs(inst) \ ScheduledOps(sched)

(* The last missing pair instead of the first. *)
LastPair(S) ==
    CHOOSE p \in S : \A q \in S : q[1] < p[1] \/ (q[1] = p[1] /\ q[2] <= p[2])

FirstPair(S) ==
    CHOOSE p \in S : \A q \in S : p[1] < q[1] \/ (p[1] = q[1] /\ p[2] <= q[2])

(* line 207 *)
CountMismatch(inst, sched) ==
    Cardinality(ScheduledOps(sched)) # TotalOperations(inst)

(* lines 216-217 and 228-229: the indices i (1-based position of the later *)
(* entry) at which consecutive entries overlap.                            *)
AdjacentViolations(sorted) ==
    {i \in 2..Len(sorted) : sorted[i - 1].completion_time > sorted[i].start_time}

SetMin(S) == CHOOSE x \in S : \A y \in S : x <= y

(* lines 213-214 *)
JobOps(sched, job_id) ==
    StableSort(SelectSeq(sched, LAMBDA e : e.job_id = job_id), "operation_id")

(* lines 223-226 *)
MachineOps(sched, machine_id) ==
    StableSort(SelectSeq(sched, LAMBDA e : e.machine = machine_id), "start_time")

(* lines 211-218: the jobs the precedence scan would fail on. *)
PrecedenceJobs(inst, sched) ==
    {j \in JobIds(inst) : AdjacentViolations(JobOps(sched, j)) # {}}

(* lines 221-230: the machines the exclusivity scan looks at. *)
CheckedMachines(inst) == MachineIds(inst)

(* An exclusivity scan that finds nothing. *)
OverlapMachinesNone(inst, sched) == {}

OverlapMachines(inst, sched) ==
    {m \in CheckedMachines(inst) : AdjacentViolations(MachineOps(sched, m)) # {}}

Verdict(is_valid, reason) == [is_valid |-> is_valid, reason |-> reason]

validate_solution(inst, solution) ==
    LET sched == GetSchedule(solution) IN
    IF MissingOps(inst, sched) # {}
    THEN LET p == FirstPair(MissingOps(inst, sched)) IN
         Verdict(FALSE, NotScheduled(p[1], p[2]))
    ELSE IF CountMismatch(inst, sched)
    THEN Verdict(FALSE, DuplicateOperations)
    ELSE IF PrecedenceJobs(inst, sched) # {}
    THEN LET j == SetMin(PrecedenceJobs(inst, sched))
             ops == JobOps(sched, j)
             i == SetMin(AdjacentViolations(ops)) IN
         Verdict(FALSE, StartsBeforePrevious(j, ops[i].operation_id))
    ELSE IF OverlapMachines(inst, sched) # {}
    THEN Verdict(FALSE, MachineOverlap(SetMin(OverlapMachines(inst, sched))))
    ELSE Verdict(TRUE, NoReason)

NoVerdict == Verdict(FALSE, Reason("not called", -1, -1, -1))

----------------------------------------------------------------------------
(* Instances the hand-made schedules are built for. *)

Op(em, pt) == [eligible_machines |-> em, processing_times |-> pt]

(* 1 machine, 2 jobs of one operation each, durations 10 and 5. *)
Scenario1 ==
    [num_machines |-> 1,
     jobs |-> << <<Op(<<0>>, (0 :> 10))>>, <<Op(<<0>>, (0 :> 5))>> >>]

(* 2 machines, 1 job: op0 on {0, 1} with duration 4 on each, op1 on {0} with duration 3. *)
Scenario2 ==
    [num_machines |-> 2,
     jobs |-> << <<Op(<<0, 1>>, (0 :> 4) @@ (1 :> 4)), Op(<<0>>, (0 :> 3))>> >>]

(* 2 machines, job 0 of one operation, job 1 of two. *)
Scenario3 ==
    [num_machines |-> 2,
     jobs |-> << <<Op(<<0>>, (0 :> 2))>>,
                 <<Op(<<1>>, (1 :> 1)), Op(<<1, 0>>, (1 :> 3) @@ (0 :> 2))>> >>]

(* 2 machines, job 0 of two operations, job 1 of one. *)
Scenario4 ==
    [num_machines |-> 2,
     jobs |-> << <<Op(<<1>>, (1 :> 2)), Op(<<0, 1>>, (0 :> 3) @@ (1 :> 1))>>,
                 <<Op(<<0, 1>>, (0 :> 2) @@ (1 :> 2))>> >>]

ScenarioInstances == {Scenario1, Scenario2, Scenario3, Scenario4}

----------------------------------------------------------------------------
(* The state machine. *)

(* pc is one of "ready", "spt_loop", "returned", "crashed", "recorded",    *)
(* "saved", "validated".                                                   *)

(* The parameters FSJPInstance reads from CONFIG; NoConfig where the       *)
(* instance is given and nothing is generated.                             *)
Config(n, exponent, ops_range, flex_range) ==
    [num_jobs |-> n, machine_scaling_exponent |-> exponent,
     operations_per_job |-> ops_range, flexibility |-> flex_range]

NoConfig == Config(0, 0, <<0, 0>>, <<0, 0>>)

InitWith(inst) ==
    /\ CONFIG = NoConfig
    /\ instance = inst
    /\ pc = "ready"
    /\ machine_available = <<>>
    /\ job_operation_idx = <<>>
    /\ job_completion = <<>>
    /\ schedule = <<>>
    /\ iterations = 0
    /\ result = NoResult
    /\ results = <<>>
    /\ validations = <<>>
    /\ edits = 0
    /\ verdict = NoVerdict

Init ==
    \E M \in MachineCounts, n \in 0..MaxJobs, t \in 0..MaxTotalOps :
        \E inst \in InstancesOf(M, n, t) : InitWith(inst)

InitV == \E inst \in ScenarioInstances : InitWith(inst)

(* run_algorithm(name, instance) up to the call of the algorithm, and the  *)
(* algorithm's lines 18-25.                                                *)
RunAlgorithm(name) ==
    /\ pc = "ready"
    /\ IF name \notin algorithms
       THEN /\ result' = UnknownAlgorithmResult
            /\ pc' = "returned"
            /\ UNCHANGED <<machine_available, job_operation_idx, job_completion>>
       ELSE /\ machine_available' = [m \in MachineIds(instance) |-> 0]
            /\ job_operation_idx' = [j \in JobIds(instance) |-> 0]
            /\ job_completion' = [j \in JobIds(instance) |-> 0]
            /\ pc' = "spt_loop"
            /\ UNCHANGED result
    /\ UNCHANGED <<CONFIG, instance, schedule, iterations, results, validations, edits, verdict>>

(* One pass through the body of the while loop (lines 27-73). With no      *)
(* candidate best_job stays -1 and the pass changes nothing; the model     *)
(* follows at most MaxIdle such passes.                                    *)
SptIterate ==
    /\ pc = "spt_loop"
    /\ ~AllComplete(instance, job_operation_idx)
    /\ LET best == SelectBest(Candidates(instance, job_operation_idx,
                                         machine_available, job_completion), NoBest)
           entry == NewEntry(instance, job_operation_idx, best)
       IN IF best.job_id # -1
          THEN /\ schedule' = Append(schedule, entry)
               /\ machine_available' =
                      [machine_available EXCEPT ![best.machine] = entry.completion_time]
               /\ job_completion' =
                      [job_completion EXCEPT ![best.job_id] = entry.completion_time]
               /\ job_operation_idx' = AdvanceCursor(job_operation_idx, best.job_id)
          ELSE /\ iterations - Len(schedule) < MaxIdle
               /\ UNCHANGED <<schedule, machine_available, job_completion,
                              job_operation_idx>>
    /\ iterations' = iterations + 1
    /\ UNCHANGED <<CONFIG, instance, pc, result, results, validations, edits, verdict>>

(* The while condition is false: lines 76-82, then run_algorithm's lines   *)
(* 66-84. max() of an empty job_completion raises ValueError, which        *)
(* run_algorithm catches.                                                  *)
SptReturn ==
    /\ pc = "spt_loop"
    /\ AllComplete(instance, job_operation_idx)
    /\ result' = IF num_jobs(instance) = 0
                 THEN ExceptionResult
                 ELSE SptResult(ComputeMakespan(job_completion), schedule)
    /\ pc' = "returned"
    /\ UNCHANGED <<CONFIG, instance, machine_available, job_operation_idx, job_completion,
                   schedule, iterations, results, validations, edits, verdict>>

(* main.py lines 128-138: the seed is added, the makespan and the          *)
(* execution time are printed (KeyError without the key), the result is    *)
(* stored.                                                                 *)
RecordResult ==
    /\ pc = "returned"
    /\ IF {"makespan", "execution_time"} \subseteq result.keys
       THEN /\ results' = Append(results, [result EXCEPT !.keys = @ \cup {"seed"}])
            /\ pc' = "recorded"
       ELSE /\ pc' = "crashed"
            /\ UNCHANGED results
    /\ UNCHANGED <<CONFIG, instance, machine_available, job_operation_idx, job_completion,
                   schedule, iterations, result, validations, edits, verdict>>

(* line 118: solution.get('makespan', float('inf')) *)
GetMakespan(solution) ==
    IF "makespan" \in solution.keys THEN solution.makespan ELSE Infinity

(* ResultsManager.save_validations, lines 115-125, for the recorded run. *)
SaveValidations ==
    /\ pc = "recorded"
    /\ LET solution == results[Len(results)]
           v == validate_solution(instance, solution)
       IN validations' = Append(validations,
              [is_valid |-> v.is_valid, makespan |-> GetMakespan(solution),
               error_message |-> v.reason])
    /\ pc' = "saved"
    /\ UNCHANGED <<CONFIG, instance, machine_available, job_operation_idx, job_completion,
                   schedule, iterations, result, results, edits, verdict>>

Next ==
    \/ \E name \in AlgorithmNames : RunAlgorithm(name)
    \/ SptIterate
    \/ SptReturn
    \/ RecordResult
    \/ SaveValidations

Spec == Init /\ [][Next]_vars

(* The same pipeline, started from the enumerated instances and from the   *)
(* scenario instances.                                                     *)
InitS == Init \/ InitV

SpecS == InitS /\ [][Next]_vars

----------------------------------------------------------------------------
(* Hand-made schedules: a returned schedule is changed entry by entry      *)
(* (an entry removed, copied, moved to another machine or operation, its   *)
(* times rewritten or swapped) and then handed to validate_solution.       *)

TimePoints(sched) ==
    {0} \cup {e.start_time : e \in Range(sched)}
        \cup {e.completion_time : e \in Range(sched)}

RemoveAt(s, i) == SubSeq(s, 1, i - 1) \o SubSeq(s, i + 1, Len(s))

EditSchedule(new) ==
    /\ pc = "returned"
    /\ "schedule" \in result.keys
    /\ edits < MaxEdits
    /\ new # result.schedule
    /\ result' = [result EXCEPT !.schedule = new]
    /\ edits' = edits + 1
    /\ UNCHANGED <<CONFIG, instance, pc, machine_available, job_operation_idx, job_completion,
                   schedule, iterations, results, validations, verdict>>

RemoveEntry ==
    \E i \in 1..Len(result.schedule) : EditSchedule(RemoveAt(result.schedule, i))

DuplicateEntry ==
    \E i \in 1..Len(result.schedule) :
        EditSchedule(Append(result.schedule, result.schedule[i]))

SetMachine ==
    \E i \in 1..Len(result.schedule), m \in 0..instance.num_machines :
        EditSchedule([result.schedule EXCEPT ![i].machine = m])

SetOperationId ==
    \E i \in 1..Len(result.schedule), o \in 0..MaxTotalOps :
        EditSchedule([result.schedule EXCEPT ![i].operation_id = o])

SetStartTime ==
    \E i \in 1..Len(result.schedule), t \in TimePoints(result.schedule) :
        EditSchedule([result.schedule EXCEPT ![i].start_time = t])

SetCompletionTime ==
    \E i \in 1..Len(result.schedule), t \in TimePoints(result.schedule) :
        EditSchedule([result.schedule EXCEPT ![i].completion_time = t])

SwapStartTimes ==
    \E i, j \in 1..Len(result.schedule) :
        /\ i < j
        /\ EditSchedule([result.schedule EXCEPT
                            ![i].start_time = result.schedule[j].start_time,
                            ![j].start_time = result.schedule[i].start_time])

(* validate_solution(instance, solution) called on the hand-made solution. *)
Validate ==
    /\ pc = "returned"
    /\ verdict' = validate_solution(instance, result)
    /\ pc' = "validated"
    /\ UNCHANGED <<CONFIG, instance, machine_available, job_operation_idx, job_completion,
                   schedule, iterations, result, results, validations, edits>>

NextV ==
    \/ \E name \in AlgorithmNames : RunAlgorithm(name)
    \/ SptIterate
    \/ SptReturn
    \/ RemoveEntry
    \/ DuplicateEntry
    \/ SetMachine
    \/ SetOperationId
    \/ SetStartTime
    \/ SetCompletionTime
    \/ SwapStartTimes
    \/ Validate

SpecV == InitV /\ [][NextV]_vars

----------------------------------------------------------------------------
(* Malformed solutions: entries of the schedule lose fields, or the        *)
(* solution loses its schedule, before validate_solution is called. An     *)
(* entry is a dict: a function from the keys it holds. Reading a key the   *)
(* dict does not hold raises KeyError, which validate_solution does not    *)
(* catch.                                                                  *)

EntryFields == {"job_id", "operation_id", "machine", "start_time", "completion_time"}

Lacks(e, key) == key \notin DOMAIN e

WithoutKey(e, key) == [k \in DOMAIN e \ {key} |-> e[k]]

(* The entry with a filler under every key it lacks. *)
FillEntry(e) == [k \in EntryFields |-> IF k \in DOMAIN e THEN e[k] ELSE -1]

(* lines 215-217 and 227-229: the indices at which the comparison of       *)
(* consecutive entries ends the scan, by raising KeyError or by holding.   *)
ScanStops(sorted) ==
    {i \in 2..Len(sorted) :
        \/ Lacks(sorted[i - 1], "completion_time")
        \/ Lacks(sorted[i], "start_time")
        \/ sorted[i - 1].completion_time > sorted[i].start_time}

ScanRaises(sorted) ==
    /\ ScanStops(sorted) # {}
    /\ LET i == SetMin(ScanStops(sorted)) IN
       Lacks(sorted[i - 1], "completion_time") \/ Lacks(sorted[i], "start_time")

(* lines 196-198 *)
KeyLoopRaises(sched) ==
    \E i \in 1..Len(sched) : Lacks(sched[i], "job_id") \/ Lacks(sched[i], "operation_id")

(* lines 211-218: the jobs at which the precedence scan ends. *)
PrecedenceStops(inst, sched) ==
    {j \in JobIds(inst) : ScanStops(JobOps(sched, j)) # {}}

PrecedenceRaises(inst, sched) ==
    /\ PrecedenceStops(inst, sched) # {}
    /\ ScanRaises(JobOps(sched, SetMin(PrecedenceStops(inst, sched))))

(* line 223 reads op['machine'] of every entry; line 226 reads the         *)
(* start_time of every entry on the machine.                               *)
MachineFilterRaises(inst, sched) ==
    /\ MachineIds(inst) # {}
    /\ \E i \in 1..Len(sched) : Lacks(sched[i], "machine")

MachineSortRaises(sched, machine_id) ==
    \E i \in 1..Len(sched) :
        sched[i].machine = machine_id /\ Lacks(sched[i], "start_time")

(* lines 221-230: the machines at which the exclusivity scan ends. *)
MachineStops(inst, sched) ==
    {m \in MachineIds(inst) :
        MachineSortRaises(sched, m) \/ ScanStops(MachineOps(sched, m)) # {}}

MachineRaises(inst, sched) ==
    \/ MachineFilterRaises(inst, sched)
    \/ /\ MachineStops(inst, sched) # {}
       /\ LET m == SetMin(MachineStops(inst, sched)) IN
          MachineSortRaises(sched, m) \/ ScanRaises(MachineOps(sched, m))

(* validate_solution(instance, solution) raises KeyError. *)
RaisesKeyError(inst, solution) ==
    LET sched == GetSchedule(solution) IN
    \/ KeyLoopRaises(sched)
    \/ /\ MissingOps(inst, sched) = {}
       /\ ~CountMismatch(inst, sched)
       /\ \/ PrecedenceRaises(inst, sched)
          \/ PrecedenceStops(inst, sched) = {} /\ MachineRaises(inst, sched)

(* The solution with every entry filled: where validate_solution does not  *)
(* raise, it has returned without reading a key that is lacking.           *)
Filled(solution) ==
    [solution EXCEPT !.schedule = [i \in 1..Len(@) |-> FillEntry(@[i])]]

DropEntryField ==
    \E i \in 1..Len(result.schedule) :
        \E key \in DOMAIN result.schedule[i] :
            EditSchedule([result.schedule EXCEPT ![i] = WithoutKey(@, key)])

(* A solution without the key 'schedule'. *)
DropSchedule ==
    /\ pc = "returned"
    /\ "schedule" \in result.keys
    /\ edits < MaxEdits
    /\ result' = [result EXCEPT !.keys = @ \ {"schedule"}]
    /\ edits' = edits + 1
    /\ UNCHANGED <<CONFIG, instance, pc, machine_available, job_operation_idx, job_completion,
                   schedule, iterations, results, validations, verdict>>

(* validate_solution(instance, solution) called on any such solution: it   *)
(* returns a verdict or ends with an uncaught KeyError.                    *)
ValidateAny ==
    /\ pc = "returned"
    /\ IF RaisesKeyError(instance, result)
       THEN pc' = "crashed" /\ UNCHANGED verdict
       ELSE pc' = "validated" /\ verdict' = validate_solution(instance, Filled(result))
    /\ UNCHANGED <<CONFIG, instance, machine_available, job_operation_idx, job_completion,
                   schedule, iterations, result, results, validations, edits>>

NextF ==
    \/ \E name \in AlgorithmNames : RunAlgorithm(name)
    \/ SptIterate
    \/ SptReturn
    \/ RemoveEntry
    \/ DropEntryField
    \/ DropSchedule
    \/ ValidateAny

SpecF == InitV /\ [][NextF]_vars

----------------------------------------------------------------------------
(* Two runs of main's loop over instances (main.py lines 104-138): the run *)
(* on an instance, recorded, and then the run on the instance with one     *)
(* more job at the end of its jobs list, the machines and the earlier jobs *)
(* unchanged.                                                              *)

MaxAddedOps == 1

(* The operations of a valid instance with M machines. *)
ValidOperations(M) == {op \in Operations(M) : op.eligible_machines # <<>>}

AddedJobs(M) == UNION {[1..k -> ValidOperations(M)] : k \in 1..MaxAddedOps}

InitM ==
    \E M \in MachineCounts, n \in 1..MaxJobs, t \in 0..MaxTotalOps :
        \E inst \in InstancesOf(M, n, t) : ValidInstance(inst) /\ InitWith(inst)

(* The next instance of the loop: the recorded one plus a job. Every       *)
(* call of shortest_processing_time starts from its lines 18-25.           *)
AddJob ==
    /\ pc = "recorded"
    /\ Len(results) = 1
    /\ \E job \in AddedJobs(instance.num_machines) :
           instance' = [instance EXCEPT !.jobs = Append(@, job)]
    /\ pc' = "ready"
    /\ machine_available' = <<>>
    /\ job_operation_idx' = <<>>
    /\ job_completion' = <<>>
    /\ schedule' = <<>>
    /\ iterations' = 0
    /\ result' = NoResult
    /\ UNCHANGED <<CONFIG, results, validations, edits, verdict>>

NextM ==
    \/ \E name \in AlgorithmNames : RunAlgorithm(name)
    \/ SptIterate
    \/ SptReturn
    \/ RecordResult
    \/ AddJob

SpecM == InitM /\ [][NextM]_vars

----------------------------------------------------------------------------
(* FSJPInstance(seed): the instance is generated from CONFIG, one job per  *)
(* pass of the outer loop of _generate_jobs (main.py lines 41-78).         *)

ConfigNumJobs == {0, 1, 2}

ScalingExponents == {0, 1}

OpsRanges == {<<0, 1>>, <<1, 1>>, <<1, 2>>}

FlexRanges == {r \in (0..3) \X (0..3) : r[1] <= r[2]}

Configs ==
    {Config(n, e, o, f) :
        n \in ConfigNumJobs, e \in ScalingExponents, o \in OpsRanges, f \in FlexRanges}

Min(a, b) == IF a <= b THEN a ELSE b

(* line 33: max(1, int(num_jobs ** exponent)) for the exponents 0 and 1. *)
NumMachines(cfg) ==
    Max(1, IF cfg.machine_scaling_exponent = 0 THEN 1 ELSE cfg.num_jobs)

(* random.randint(a, b): a value of a..b; ValueError when the range is empty. *)
RandInt(a, b) == a..b

(* lines 52-53 *)
FlexibilityValues(cfg, M) ==
    RandInt(cfg.flexibility[1], Min(cfg.flexibility[2], M))

(* line 56: random.sample(range(num_machines), flexibility) *)
Sample(M, k) == {s \in NoRepeatSeqs(0..(M - 1)) : Len(s) = k}

(* lines 50-73: one processing time for all the eligible machines. *)
GeneratedOperations(cfg, M) ==
    UNION {{Op(em, [m \in Range(em) |-> d]) : em \in Sample(M, f), d \in Durations} :
           f \in FlexibilityValues(cfg, M)}

InitG ==
    /\ CONFIG \in Configs
    /\ instance = [num_machines |-> NumMachines(CONFIG), jobs |-> <<>>]
    /\ pc = "generating"
    /\ machine_available = <<>>
    /\ job_operation_idx = <<>>
    /\ job_completion = <<>>
    /\ schedule = <<>>
    /\ iterations = 0
    /\ result = NoResult
    /\ results = <<>>
    /\ validations = <<>>
    /\ edits = 0
    /\ verdict = NoVerdict

(* One pass of the outer loop, lines 41-78. The ValueError of randint is   *)
(* not caught: the program ends.                                           *)
GenerateJob ==
    /\ pc = "generating"
    /\ Len(instance.jobs) < CONFIG.num_jobs
    /\ \E num_operations \in RandInt(CONFIG.operations_per_job[1],
                                      CONFIG.operations_per_job[2]) :
          IF num_operations > 0 /\ FlexibilityValues(CONFIG, instance.num_machines) = {}
          THEN pc' = "crashed" /\ UNCHANGED instance
          ELSE /\ \E job \in [1..num_operations ->
                                  GeneratedOperations(CONFIG, instance.num_machines)] :
                     instance' = [instance EXCEPT !.jobs = Append(@, job)]
               /\ pc' = pc
    /\ UNCHANGED <<CONFIG, machine_available, job_operation_idx, job_completion,
                   schedule, iterations, result, results, validations, edits, verdict>>

(* line 80 *)
ReturnJobs ==
    /\ pc = "generating"
    /\ Len(instance.jobs) = CONFIG.num_jobs
    /\ pc' = "ready"
    /\ UNCHANGED <<CONFIG, instance, machine_available, job_operation_idx, job_completion,
                   schedule, iterations, result, results, validations, edits, verdict>>

NextG ==
    \/ GenerateJob
    \/ ReturnJobs

SpecG == InitG /\ [][NextG]_vars

----------------------------------------------------------------------------
(* Properties. *)

EntryKey(e) == <<e.job_id, e.operation_id>>

(* The run returned a schedule: shortest_processing_time itself returned. *)
SptReturned == pc # "ready" /\ pc # "spt_loop" /\ "schedule" \in result.keys

(* C1: on a valid instance, the validation row written for the result of   *)
(* shortest_processing_time says (True, None).                             *)
C1_ValidatorSoundness ==
    (pc = "saved" /\ SptReturned /\ ValidInstance(instance)) =>
        /\ validations[Len(validations)].is_valid = TRUE
        /\ validations[Len(validations)].error_message = NoReason

(* C1 witness: a valid instance of two operations was scheduled and its row written. *)
C1_Witness ==
    /\ pc = "saved"
    /\ SptReturned
    /\ ValidInstance(instance)
    /\ Len(results[1].schedule) = 2
    /\ validations[1].is_valid = TRUE

(* C2: the schedule shortest_processing_time returns holds exactly one     *)
(* entry for each (job_id, operation_id) pair of the instance and no other *)
(* entry, so its length is the total number of operations.                 *)
C2_OneEntryPerOperation ==
    SptReturned =>
        /\ \A p \in AllPairs(instance) :
               Cardinality({i \in 1..Len(result.schedule) :
                               EntryKey(result.schedule[i]) = p}) = 1
        /\ \A i \in 1..Len(result.schedule) :
               EntryKey(result.schedule[i]) \in AllPairs(instance)
        /\ Len(result.schedule) = TotalOperations(instance)

(* C2 witness: a returned schedule for a job of two operations. *)
C2_Witness ==
    /\ SptReturned
    /\ \E j \in JobIds(instance) : Len(operations(instance, j)) = 2
    /\ Len(result.schedule) = 2

(* The pairs of the instance no entry of the schedule is for. *)
Unscheduled(inst, sched) ==
    {p \in AllPairs(inst) : \A i \in 1..Len(sched) : EntryKey(sched[i]) # p}

PairBefore(p, q) == p[1] < q[1] \/ (p[1] = q[1] /\ p[2] < q[2])

(* Other violations a schedule with a missing entry may also contain. *)
HasOtherViolation(inst, sched) ==
    \/ \E i, j \in 1..Len(sched) : i # j /\ EntryKey(sched[i]) = EntryKey(sched[j])
    \/ \E i, j \in 1..Len(sched) :
          /\ i # j
          /\ sched[i].machine = sched[j].machine
          /\ sched[i].completion_time > sched[j].start_time
          /\ sched[j].completion_time > sched[i].start_time
    \/ \E i, j \in 1..Len(sched) :
          /\ sched[i].job_id = sched[j].job_id
          /\ sched[i].operation_id < sched[j].operation_id
          /\ sched[i].completion_time > sched[j].start_time

(* C3: when some pair of the instance has no entry, validate_solution      *)
(* returns (False, "Operation <o> of job <j> is not scheduled") for the    *)
(* first missing pair in job-id then operation-id order, whatever else is  *)
(* wrong with the schedule; a schedule missing only operation 1 of job 0   *)
(* yields "Operation 1 of job 0 is not scheduled".                         *)
C3_FirstMissingReported ==
    pc = "validated" =>
        /\ \A p \in Unscheduled(instance, GetSchedule(result)) :
               (\A q \in Unscheduled(instance, GetSchedule(result)) : ~PairBefore(q, p))
                   => verdict = Verdict(FALSE, NotScheduled(p[1], p[2]))
        /\ Unscheduled(instance, GetSchedule(result)) = {<<0, 1>>}
               => verdict = Verdict(FALSE, NotScheduled(0, 1))

(* C3 witness: two pairs are missing from a validated schedule that also   *)
(* holds another violation, and the first of them is reported.             *)
C3_Witness ==
    /\ pc = "validated"
    /\ Cardinality(Unscheduled(instance, GetSchedule(result))) = 2
    /\ HasOtherViolation(instance, GetSchedule(result))
    /\ verdict.reason.kind = "is not scheduled"

(* Two entries overlap in time. *)
Overlap(a, b) ==
    ~(a.completion_time <= b.start_time \/ b.completion_time <= a.start_time)

MachineConflicts(sched) ==
    {m \in {sched[i].machine : i \in 1..Len(sched)} :
        \E i, j \in 1..Len(sched) :
            i # j /\ sched[i].machine = m /\ sched[j].machine = m
                  /\ Overlap(sched[i], sched[j])}

(* C4: validate_solution returns (True, None) only if no two entries on    *)
(* the same machine overlap in time, for every machine value occurring in  *)
(* the schedule; otherwise (the earlier checks passing) it returns False   *)
(* with the overlap reason naming a machine.                               *)
C4_NoOverlapWhenValid ==
    pc = "validated" =>
        /\ verdict.is_valid => MachineConflicts(GetSchedule(result)) = {}
        /\ (/\ MachineConflicts(GetSchedule(result)) # {}
            /\ MissingOps(instance, GetSchedule(result)) = {}
            /\ ~CountMismatch(instance, GetSchedule(result))
            /\ PrecedenceJobs(instance, GetSchedule(result)) = {})
               => (~verdict.is_valid /\ verdict.reason.kind = "overlap in time"
                   /\ verdict.reason.machine_id \in MachineConflicts(GetSchedule(result)))

(* The jobs in which an entry of operation k completes after an entry of   *)
(* operation k + 1 starts, and in such a job the operations k + 1 whose    *)
(* entry starts too early.                                                 *)
EarlyOps(sched, job_id) ==
    {sched[j].operation_id : j \in
        {j \in 1..Len(sched) :
            /\ sched[j].job_id = job_id
            /\ \E i \in 1..Len(sched) :
                  /\ sched[i].job_id = job_id
                  /\ sched[i].operation_id + 1 = sched[j].operation_id
                  /\ sched[i].completion_time > sched[j].start_time}}

ViolatingJobs(inst, sched) == {j \in JobIds(inst) : EarlyOps(sched, j) # {}}

(* C5: validate_solution returns (True, None) only if in every job every   *)
(* entry of operation k completes no later than every entry of operation   *)
(* k + 1 starts; when completeness passes and some job violates this, the  *)
(* reason names the lowest violating job and the operation of the entry    *)
(* that starts too early.                                                  *)
C5_PrecedenceWhenValid ==
    pc = "validated" =>
        /\ verdict.is_valid => ViolatingJobs(instance, GetSchedule(result)) = {}
        /\ (/\ ViolatingJobs(instance, GetSchedule(result)) # {}
            /\ MissingOps(instance, GetSchedule(result)) = {}
            /\ ~CountMismatch(instance, GetSchedule(result)))
               => LET j == SetMin(ViolatingJobs(instance, GetSchedule(result))) IN
                  /\ ~verdict.is_valid
                  /\ verdict.reason.kind = "starts before previous operation completes"
                  /\ verdict.reason.job_id = j
                  /\ verdict.reason.operation_id \in EarlyOps(GetSchedule(result), j)

HasDuplicate(sched) ==
    \E i, j \in 1..Len(sched) : i # j /\ EntryKey(sched[i]) = EntryKey(sched[j])

(* C6: when every pair of the instance has an entry and some pair has two  *)
(* or more, validate_solution returns                                      *)
(* (False, "Schedule contains duplicate operations").                      *)
C6_DuplicatesReported ==
    (/\ pc = "validated"
     /\ Unscheduled(instance, GetSchedule(result)) = {}
     /\ HasDuplicate(GetSchedule(result)))
        => verdict = Verdict(FALSE, DuplicateOperations)

(* C7: validate_solution returns (True, None) only if every entry's        *)
(* machine is eligible for the entry's operation and its completion_time   *)
(* is its start_time plus the operation's processing time on that machine. *)
C7_EligibleMachineAndDuration ==
    (pc = "validated" /\ verdict.is_valid) =>
        \A i \in 1..Len(GetSchedule(result)) :
            LET e == GetSchedule(result)[i] IN
            /\ EntryKey(e) \in AllPairs(instance)
            /\ e.machine \in Range(Operation(instance, e.job_id, e.operation_id).eligible_machines)
            /\ e.completion_time = e.start_time +
                   Operation(instance, e.job_id, e.operation_id).processing_times[e.machine]

(* C8: when the next unscheduled operation of some job has no eligible     *)
(* machine the call ends in the error outcome InfeasibleInstanceError: no  *)
(* pass through the loop body ends without a commit unless the call has    *)
(* ended with that error.                                                  *)
C8_InfeasibleFailsFast ==
    iterations > Len(schedule) =>
        (pc # "spt_loop" /\ result.error = "InfeasibleInstanceError")

(* C9: a failure of the scheduling function, or an unknown algorithm name, *)
(* is never turned into a returned result whose makespan is infinity, and  *)
(* no run is recorded or written with such a makespan.                     *)
C9_NoInfiniteMakespanResult ==
    /\ result.makespan # Infinity
    /\ \A i \in 1..Len(results) : results[i].makespan # Infinity
    /\ \A i \in 1..Len(validations) : validations[i].makespan # Infinity

(* The completion times of the entries for a job's last operation. *)
LastCompletions(inst, sched) ==
    {sched[i].completion_time : i \in
        {i \in 1..Len(sched) :
            sched[i].operation_id = Len(operations(inst, sched[i].job_id)) - 1}}

(* C10: the makespan shortest_processing_time returns is the maximum       *)
(* completion_time over the entries of the returned schedule, which is the *)
(* maximum over the jobs of the completion_time of the job's last          *)
(* operation.                                                              *)
C10_MakespanIsMaxCompletion ==
    (SptReturned /\ result.schedule # <<>>) =>
        /\ result.makespan =
               SetMax({result.schedule[i].completion_time : i \in 1..Len(result.schedule)})
        /\ result.makespan = SetMax(LastCompletions(instance, result.schedule))

(* C10 witness: two jobs of one operation each were scheduled and job 0  *)
(* is not the last to finish.                                              *)
C10_Witness ==
    /\ SptReturned
    /\ num_jobs(instance) = 2
    /\ \A j \in JobIds(instance) : Len(operations(instance, j)) = 1
    /\ Len(result.schedule) = 2
    /\ job_completion[0] < job_completion[1]
    /\ result.makespan = job_completion[1]

(* The two recorded runs are runs of shortest_processing_time on a valid   *)
(* instance and on that instance plus one job.                             *)
BothRunsRecorded ==
    /\ pc = "recorded"
    /\ Len(results) = 2
    /\ \A i \in 1..2 : "schedule" \in results[i].keys

(* C11: the makespan shortest_processing_time returns for a valid instance *)
(* plus one job (same machines, earlier jobs unchanged) is at least the    *)
(* makespan it returns for the instance itself.                            *)
C11_MakespanMonotone ==
    BothRunsRecorded => results[2].makespan >= results[1].makespan

(* new is old with the start_time values of two entries exchanged. *)
SwappedStarts(old, new) ==
    \E i, j \in 1..Len(old) :
        /\ i < j
        /\ new = [old EXCEPT ![i].start_time = old[j].start_time,
                             ![j].start_time = old[i].start_time]

(* A step that exchanges two start times of an accepted schedule and so    *)
(* makes two entries on one machine overlap.                               *)
SwapCreatesOverlap ==
    /\ pc = "returned"
    /\ "schedule" \in result.keys
    /\ validate_solution(instance, result).is_valid
    /\ SwappedStarts(result.schedule, result'.schedule)
    /\ MachineConflicts(result'.schedule) # {}

C13_NeverRaises ==
    /\ pc # "crashed"
    /\ pc = "validated" =>
          /\ verdict.is_valid \in BOOLEAN
          /\ ~verdict.is_valid => verdict.reason # NoReason

(* The sizes the policy min(sampled value, num_machines) allows. *)
ClampedSizes(cfg, M) ==
    {Min(v, M) : v \in RandInt(cfg.flexibility[1], cfg.flexibility[2])}

(* C14: with a flexibility range [lo, hi], lo >= 1, and at least one       *)
(* machine, generation does not fail, and the eligible_machines of every   *)
(* generated operation is non-empty, without repetition, made of machine   *)
(* indices of the instance, and of size min(v, num_machines) for some v    *)
(* in [lo, hi].                                                            *)
C14_FlexibilityClamped ==
    (pc \in {"generating", "ready", "crashed"} /\ CONFIG.flexibility[1] >= 1) =>
        /\ pc # "crashed"
        /\ \A p \in AllPairs(instance) :
               LET em == Operation(instance, p[1], p[2]).eligible_machines IN
               /\ em # <<>>
               /\ \A a, b \in 1..Len(em) : a # b => em[a] # em[b]
               /\ Range(em) \subseteq MachineIds(instance)
               /\ Len(em) \in ClampedSizes(CONFIG, instance.num_machines)

(* A pass through the loop body that commits an entry, and the entry. *)
CommitStep == pc = "spt_loop" /\ Len(schedule') = Len(schedule) + 1

Committed == schedule'[Len(schedule')]

(* The (job, machine) pairs of an iteration: the next operation of every   *)
(* unfinished job with each of its eligible machines, and a pair's         *)
(* processing time and candidate start before the commit.                  *)
NextOperation(j) == Operation(instance, j, job_operation_idx[j])

CandidatePairs ==
    {jm \in JobIds(instance) \X MachineIds(instance) :
        /\ job_operation_idx[jm[1]] < Len(operations(instance, jm[1]))
        /\ jm[2] \in Range(NextOperation(jm[1]).eligible_machines)}

PairTime(jm) == NextOperation(jm[1]).processing_times[jm[2]]

PairStart(jm) == Max(machine_available[jm[2]], job_completion[jm[1]])

ShortestPairs == {jm \in CandidatePairs : \A c \in CandidatePairs : PairTime(jm) <= PairTime(c)}

EarliestShortestPairs ==
    {jm \in ShortestPairs : \A c \in ShortestPairs : PairStart(jm) <= PairStart(c)}

Scenario1Schedule ==
    << [job_id |-> 1, operation_id |-> 0, machine |-> 0, start_time |-> 0,
        completion_time |-> 5],
       [job_id |-> 0, operation_id |-> 0, machine |-> 0, start_time |-> 5,
        completion_time |-> 15] >>

(* C15: the pair committed in an iteration is a candidate pair, has the    *)
(* minimum processing time of all candidate pairs and, among those, the    *)
(* minimum candidate start; on the instance of 1 machine and two           *)
(* single-operation jobs of durations 10 and 5 the duration-5 operation    *)
(* runs over [0, 5], the other over [5, 15], and the makespan is 15.       *)
C15_CommitsShortestThenEarliest ==
    /\ [][CommitStep =>
             <<Committed.job_id, Committed.machine>> \in EarliestShortestPairs]_vars
    /\ [](instance = Scenario1 /\ SptReturned =>
             result.schedule = Scenario1Schedule /\ result.makespan = 15)

(* C15 witness: the run on that instance returned, the duration-5          *)
(* operation of job 1 committed first.                                     *)
C15_Witness ==
    /\ instance = Scenario1
    /\ SptReturned
    /\ result.schedule[1].job_id = 1
    /\ result.makespan = 15

(* C16: a committed entry has a machine eligible for its operation (the    *)
(* job's next one), start_time = max(machine_available[machine],           *)
(* job_completion[job]) >= 0 with the values before the commit, and        *)
(* completion_time = start_time + processing_times[machine]; the commit    *)
(* sets machine_available[machine] and job_completion[job] to that         *)
(* completion_time, advances that job's cursor by one and changes no other *)
(* machine's or job's availability, readiness or cursor.                   *)
C16_CommitUpdatesOnlyItsJobAndMachine ==
    [][CommitStep =>
          LET e == Committed
              op == Operation(instance, e.job_id, e.operation_id) IN
          /\ e.job_id \in JobIds(instance)
          /\ e.operation_id = job_operation_idx[e.job_id]
          /\ e.machine \in Range(op.eligible_machines)
          /\ e.start_time = Max(machine_available[e.machine], job_completion[e.job_id])
          /\ e.start_time >= 0
          /\ e.completion_time = e.start_time + op.processing_times[e.machine]
          /\ machine_available'[e.machine] = e.completion_time
          /\ job_completion'[e.job_id] = e.completion_time
          /\ job_operation_idx'[e.job_id] = job_operation_idx[e.job_id] + 1
          /\ \A m \in MachineIds(instance) \ {e.machine} :
                 machine_available'[m] = machine_available[m]
          /\ \A j \in JobIds(instance) \ {e.job_id} :
                 /\ job_completion'[j] = job_completion[j]
                 /\ job_operation_idx'[j] = job_operation_idx[j]
          /\ DOMAIN machine_available' = MachineIds(instance)
          /\ DOMAIN job_completion' = JobIds(instance)
          /\ DOMAIN job_operation_idx' = JobIds(instance)]_vars

(* C16 witness: a job's second operation was committed on a machine that   *)
(* was free before the job was ready, while another job and another        *)
(* machine kept their values.                                              *)
C16_Witness ==
    /\ pc = "spt_loop"
    /\ instance.num_machines = 2
    /\ num_jobs(instance) = 2
    /\ \A j \in JobIds(instance) : Len(operations(instance, j)) >= 1
    /\ \E i \in 1..Len(schedule) :
          /\ schedule[i].operation_id = 1
          /\ schedule[i].start_time > 0
          /\ i = Len(schedule)
          /\ machine_available[schedule[i].machine] = schedule[i].completion_time
          /\ job_completion[schedule[i].job_id] = schedule[i].completion_time
          /\ \E m \in MachineIds(instance) : machine_available[m] = 0

(* An instance (at least one job) in which every operation has at least    *)
(* one eligible machine.                                                   *)
EveryOperationHasMachine ==
    /\ num_jobs(instance) >= 1
    /\ \A p \in AllPairs(instance) :
           Operation(instance, p[1], p[2]).eligible_machines # <<>>

(* C17: on an instance in which every operation has at least one eligible  *)
(* machine, every pass of the loop commits exactly one operation; the      *)
(* passes made never exceed the operations of the instance, the while      *)
(* condition is false exactly when they equal it, and until then some      *)
(* candidate exists for the next pass to commit, so the call returns; at   *)
(* the return the passes made are as many as the operations of the         *)
(* instance and every job's cursor equals its operation count.             *)
C17_ReturnsAfterOnePassPerOperation ==
    /\ [][(pc = "spt_loop" /\ EveryOperationHasMachine /\ iterations' # iterations) =>
             (iterations' = iterations + 1 /\ Len(schedule') = Len(schedule) + 1)]_vars
    /\ []((pc = "spt_loop" /\ EveryOperationHasMachine) =>
             /\ iterations = Len(schedule)
             /\ iterations <= TotalOperations(instance)
             /\ iterations = SeqSum([j \in 1..num_jobs(instance) |-> job_operation_idx[j - 1]])
             /\ (iterations = TotalOperations(instance)) =
                    AllComplete(instance, job_operation_idx)
             /\ ~AllComplete(instance, job_operation_idx) => CandidatePairs # {})
    /\ []((EveryOperationHasMachine /\ pc \notin {"ready", "spt_loop"}
              /\ result # UnknownAlgorithmResult) =>
             /\ SptReturned
             /\ iterations = TotalOperations(instance)
             /\ Len(result.schedule) = TotalOperations(instance)
             /\ \A j \in JobIds(instance) :
                    job_operation_idx[j] = Len(operations(instance, j)))

(* C17 witness: the call returned after three passes on an instance of     *)
(* three operations in two jobs.                                           *)
C17_Witness ==
    /\ SptReturned
    /\ EveryOperationHasMachine
    /\ num_jobs(instance) = 2
    /\ TotalOperations(instance) = 3
    /\ iterations = 3
    /\ \A j \in JobIds(instance) : job_operation_idx[j] = Len(operations(instance, j))

(* The candidates that tie on processing time and on candidate start with  *)
(* the best ones, as (job, position in the eligible_machines list).        *)
TiedPositions ==
    {jk \in JobIds(instance) \X (1..instance.num_machines) :
        /\ job_operation_idx[jk[1]] < Len(operations(instance, jk[1]))
        /\ jk[2] <= Len(NextOperation(jk[1]).eligible_machines)
        /\ <<jk[1], NextOperation(jk[1]).eligible_machines[jk[2]]>> \in EarliestShortestPairs}

(* The schedule the rule "least processing time, then least candidate      *)
(* start, then lowest job_id, then earliest position in eligible_machines" *)
(* gives for an instance: a function of the instance alone.                *)
RulePositions(inst, idx) ==
    {jk \in JobIds(inst) \X (1..inst.num_machines) :
        /\ idx[jk[1]] < Len(operations(inst, jk[1]))
        /\ jk[2] <= Len(Operation(inst, jk[1], idx[jk[1]]).eligible_machines)}

RuleKey(inst, idx, avail, compl, jk) ==
    LET op == Operation(inst, jk[1], idx[jk[1]])
        m == op.eligible_machines[jk[2]] IN
    <<op.processing_times[m], Max(avail[m], compl[jk[1]]), jk[1], jk[2]>>

RECURSIVE LexLeq(_, _)
LexLeq(a, b) ==
    \/ a = <<>>
    \/ Head(a) < Head(b)
    \/ Head(a) = Head(b) /\ LexLeq(Tail(a), Tail(b))

RECURSIVE RuleRun(_, _, _, _, _)
RuleRun(inst, idx, avail, compl, sched) ==
    IF RulePositions(inst, idx) = {} THEN sched
    ELSE LET jk == CHOOSE p \in RulePositions(inst, idx) :
                      \A q \in RulePositions(inst, idx) :
                          LexLeq(RuleKey(inst, idx, avail, compl, p),
                                 RuleKey(inst, idx, avail, compl, q))
             key == RuleKey(inst, idx, avail, compl, jk)
             m == Operation(inst, jk[1], idx[jk[1]]).eligible_machines[jk[2]]
             e == [job_id |-> jk[1], operation_id |-> idx[jk[1]], machine |-> m,
                   start_time |-> key[2], completion_time |-> key[2] + key[1]]
         IN RuleRun(inst, [idx EXCEPT ![jk[1]] = @ + 1],
                    [avail EXCEPT ![m] = e.completion_time],
                    [compl EXCEPT ![jk[1]] = e.completion_time],
                    Append(sched, e))

RuleSchedule(inst) ==
    RuleRun(inst, [j \in JobIds(inst) |-> 0], [m \in MachineIds(inst) |-> 0],
            [j \in JobIds(inst) |-> 0], <<>>)

(* C18: among the candidates that tie on processing time and on candidate  *)
(* start, the committed one is of the lowest job_id and, within that job,  *)
(* of the machine earliest in the operation's eligible_machines list; the  *)
(* schedule returned is the one this rule fixes for the instance, so two   *)
(* runs on the same instance return identical schedules.                   *)
C18_TieBreakByScanOrder ==
    /\ [][CommitStep =>
             \E jk \in TiedPositions :
                 /\ \A q \in TiedPositions :
                        jk[1] < q[1] \/ (jk[1] = q[1] /\ jk[2] <= q[2])
                 /\ Committed.job_id = jk[1]
                 /\ Committed.machine = NextOperation(jk[1]).eligible_machines[jk[2]]]_vars
    /\ [](SptReturned => result.schedule = RuleSchedule(instance))

(* C18 witness: in the first pass on two jobs every candidate tied (all    *)
(* starts are 0, all processing times equal), and job 0 was committed on   *)
(* machine 1, the first of its list <<1, 0>>.                              *)
C18_Witness ==
    /\ SptReturned
    /\ num_jobs(instance) = 2
    /\ \A j \in JobIds(instance) :
           /\ Len(operations(instance, j)) = 1
           /\ Operation(instance, j, 0).eligible_machines = <<1, 0>>
           /\ \A m \in {0, 1} : Operation(instance, j, 0).processing_times[m] = 1
    /\ result.schedule[1].job_id = 0
    /\ result.schedule[1].machine = 1

====
